---- MODULE Spec2Model ----
(***************************************************************************)
(* A state-machine model of scripts/vmaf/video_sync_vmaf.py: the           *)
(* construction of VideoSyncVMAF, the frame-scanning loops of              *)
(* find_sync_point, find_sync_point_fallback and                           *)
(* find_frame_in_original_video (one action per loop iteration), the       *)
(* stages of process() and the exit of main().                             *)
(*                                                                         *)
(* Units.  Python floats are modelled exactly as rationals:                *)
(*   - a frame rate is a pair fpsN/fpsD (fpsN = 0: cv2 could not decode    *)
(*     the file and reports 0.0);                                          *)
(*   - a timestamp is a pair <<p, q>> meaning p/q seconds, q > 0;          *)
(*   - buffer_seconds and start_time are counted in half seconds;          *)
(*   - seek_distorted is a whole number of seconds;                        *)
(*   - an OCR confidence is counted in hundredths (0.5 is 50);             *)
(*   - vmaf_offset is a pair <<k, q>> meaning k/q seconds: <<k, 30>> for   *)
(*     found_frame_position / 30.0, <<0, 1>> for 0.                        *)
(* A frame is what the code reads of it: the list of text regions the OCR  *)
(* engine returns for it (or the engine raising), and its gray intensity   *)
(* (a one-pixel image) for the difference fallback.                        *)
(***************************************************************************)
EXTENDS Integers, Sequences, FiniteSets, TLC

VARIABLES
    run,                  \* the inputs of this run: the two files, buffer, seek
    previous,             \* the results of an earlier invocation on the same inputs
    detection,            \* what extract_frame_number_with_confidence returned
    log,                  \* the records the stage in progress wrote to the log
    pc,                   \* where main()/process() stands
    results_dir,          \* TRUE once the results directory and log file exist
    retval,               \* what process() returned: None, TRUE or FALSE
    raised,               \* the exception that escaped, or None
    exit_code,            \* the status main() exits with, or None
    handles,              \* the cv2.VideoCapture handles open and not released
    trail,                \* the stages entered so far, in order
    degraded,             \* the stages that failed softly (the run went on)
    hard_failure,         \* the stage whose external tool failed, or NoError
    seen,                 \* the frames the current scanning loop has read
    frame_count,          \* loop counter of the scanning loop in progress
    last_frame_number,    \* find_sync_point: last qualifying marker
    last_confidence,      \* find_sync_point: its confidence
    sync_timestamp,       \* the sync point <<p, q>>, or None
    sync_method,          \* which scan supplied sync_timestamp
    prev_frame,           \* fallback: gray value of the previous frame
    max_diff,             \* fallback: largest difference so far
    sync_frame,           \* fallback: frame index of max_diff
    analyze_frames,       \* fallback: end of the window
    start_time,           \* trim_video: start_time in half seconds
    ffmpeg_ss,            \* the -ss argument ffmpeg was given (whole seconds)
    first_frame_number,   \* marker read from the trimmed first frame
    found_frame_position, \* result of find_frame_in_original_video
    vmaf_offset,          \* the offset handed to run_vmaf_analysis
    scores,               \* plot_vmaf.py: the per-frame scores loaded
    buckets               \* plot_histogram: frames counted per quality bucket

vars == <<run, previous, detection, log, pc, results_dir, retval, raised, exit_code, handles, trail,
          degraded, hard_failure, seen,
          frame_count, last_frame_number, last_confidence, sync_timestamp,
          sync_method, prev_frame, max_diff, sync_frame, analyze_frames,
          start_time, ffmpeg_ss, first_frame_number, found_frame_position,
          vmaf_offset, scores, buckets>>

\* Python's None and a present value: None is <<>>, a value v is <<v>>.
None == <<>>
Some(v) == <<v>>
NoError == "none"

(***************************************************************************)
(* Bounds of the model                                                     *)
(***************************************************************************)
\* Longest video whose frames are chosen freely, frame by frame.
MaxFreeFrames == 5
\* Longest freely chosen video in the runs followed to their end under
\* fairness.
MaxLiveFrames == 4
\* Gray intensities of a freely chosen frame are 0..MaxGray.
MaxGray == 2
\* trim_video as a function of its inputs: offsets run over -TrimMinOffset..TrimMaxOffset
\* seconds in quarter seconds, buffers over 0..TrimMaxBuffer seconds in halves.
TrimMinOffset == 5
TrimMaxOffset == 1000
TrimMaxBuffer == 10
\* Longest video whose frames are fixed, frame by frame, by the run.
MaxScripted == 3
\* Most text regions the OCR engine returns for one frame, when the marker
\* reader is taken as a function of them.
MaxRegions == 3
\* Number of frames of a source that outlasts every scan window.
EndlessFrames == 1000000

(***************************************************************************)
(* Program constants                                                       *)
(***************************************************************************)
ConfThreshold == 50       \* confidence > 0.5
SyncWindowSeconds == 30   \* (self.seek_distorted + 30) * fps
FallbackWindowSeconds == 10   \* int(fps * 10)
LocateWindowSeconds == 60 \* int(fps * 60)
AssumedFps == 30          \* found_frame_position / 30.0

(***************************************************************************)
(* Arithmetic of Python floats, as exact rationals                         *)
(***************************************************************************)
Max(a, b) == IF a >= b THEN a ELSE b
Min(a, b) == IF a <= b THEN a ELSE b

\* int(x) for x = p/q >= 0
IntTrunc(p, q) == p \div q

\* Python 3 round(x) for x = p/q, q > 0: to the nearest integer, ties to even.
PyRoundCeil(p, q) ==
    LET fl == p \div q
    IN  IF p - fl * q > 0 THEN fl + 1 ELSE fl

PyRound(p, q) ==
    LET fl == p \div q
        r2 == 2 * (p - fl * q)
    IN  IF r2 < q THEN fl
        ELSE IF r2 > q THEN fl + 1
        ELSE IF fl % 2 = 0 THEN fl ELSE fl + 1

(***************************************************************************)
(* Text recognised by the OCR engine: a string over the allowlist          *)
(* '0123456789', modelled as a sequence of digits (possibly empty).        *)
(***************************************************************************)
R(t, c) == [text |-> t, conf |-> c]

\* str.isdigit(): non-empty and every character a digit
IsDigitAllowingEmpty(text) == \A i \in 1..Len(text) : text[i] \in 0..9

IsDigit(text) == Len(text) > 0 /\ \A i \in 1..Len(text) : text[i] \in 0..9

\* int(text)
RECURSIVE ParseInt(_)
ParseInt(text) ==
    IF Len(text) = 0 THEN 0
    ELSE 10 * ParseInt(SubSeq(text, 1, Len(text) - 1)) + text[Len(text)]

\* str(frame_num), as the generator renders the marker
RECURSIVE Digits(_)
Digits(n) == IF n < 10 THEN <<n>> ELSE Append(Digits(n \div 10), n % 10)

\* max(results, key=lambda x: x[2]): the first region of the highest confidence
BestResultLast(results) ==
    LET i == CHOOSE k \in 1..Len(results) :
                 /\ \A j \in 1..Len(results) : results[j].conf <= results[k].conf
                 /\ \A j \in (k+1)..Len(results) : results[j].conf < results[k].conf
    IN  results[i]

BestResult(results) ==
    LET i == CHOOSE k \in 1..Len(results) :
                 /\ \A j \in 1..Len(results) : results[j].conf <= results[k].conf
                 /\ \A j \in 1..(k-1) : results[j].conf < results[k].conf
    IN  results[i]

\* An OCR outcome: readtext raised, or the list of regions it returned.
Ocr(results) == [raises |-> FALSE, results |-> results]
Raise == [raises |-> TRUE, results |-> <<>>]

\* extract_frame_number_with_confidence(frame) -> <<number, confidence>>
extract_frame_number_with_confidence(ocr) ==
    IF ocr.raises THEN <<None, 0>>
    ELSE IF Len(ocr.results) = 0 THEN <<None, 0>>
    ELSE LET best == BestResult(ocr.results)
         IN  IF IsDigit(best.text) THEN <<Some(ParseInt(best.text)), best.conf>>
             ELSE <<None, 0>>

(***************************************************************************)
(* Frame sources.  A video is [kind, base, list, fpsN, fpsD, n]: n frames  *)
(* at fpsN/fpsD frames per second.                                         *)
(*   "count":   frame i shows the marker base + i, read with confidence    *)
(*              0.9 (the generator's output: str(frame_num));              *)
(*   "markers": frame i shows the marker list[i+1], confidence 0.9;        *)
(*   "blank":   all-black frames, no text found;                           *)
(*   "free":    every frame read is any OCR outcome / any gray level;      *)
(*   "scripted": frame i is list[i+1], a pair [ocr, gray]: what the OCR     *)
(*              engine does on that frame every time it is given it, and    *)
(*              the frame's gray level;                                     *)
(*   "undecodable": the file exists but cv2 cannot open it.                *)
(***************************************************************************)
Video(k, b, l, fn, fd, n) ==
    [kind |-> k, base |-> b, list |-> l, fpsN |-> fn, fpsD |-> fd, n |-> n]

CountVideo(b, fn, fd, n) == Video("count", b, <<>>, fn, fd, n)
MarkerVideo(l, fn, fd) == Video("markers", 0, l, fn, fd, Len(l))
BlankVideo(fn, fd, n) == Video("blank", 0, <<>>, fn, fd, n)
FreeVideo(fn, fd, n) == Video("free", 0, <<>>, fn, fd, n)
ScriptedVideo(l, fn, fd) == Video("scripted", 0, l, fn, fd, Len(l))
Undecodable == Video("undecodable", 0, <<>>, 0, 1, 0)

\* What the OCR engine may return for a freely chosen frame of the scanned
\* distorted video.
FreeOcr ==
    { Raise,
      Ocr(<<>>),
      Ocr(<<R(<<5>>, 90)>>),
      Ocr(<<R(<<7>>, 51)>>),
      Ocr(<<R(<<5>>, 50)>>),
      Ocr(<<R(<<>>, 90)>>) }

\* Outcomes with several regions, a marker 0, leading zeros and low
\* confidences, for the single-frame read and the reference scan.
RichOcr ==
    { Raise,
      Ocr(<<>>),
      Ocr(<<R(<<5>>, 90)>>),
      Ocr(<<R(<<7>>, 30)>>),
      Ocr(<<R(<<0>>, 90)>>),
      Ocr(<<R(<<0, 5>>, 50)>>),
      Ocr(<<R(<<7>>, 30), R(<<5>>, 90)>>),
      Ocr(<<R(<<7>>, 90), R(<<5>>, 90)>>),
      Ocr(<<R(<<>>, 90), R(<<5>>, 30)>>) }

\* The OCR outcomes possible for frame idx of a video (cap.read + readtext).
OcrChoicesUnscripted(video, idx, free) ==
    CASE video.kind = "count" -> { Ocr(<<R(Digits(video.base + idx), 90)>>) }
      [] video.kind = "markers" -> { Ocr(<<R(Digits(video.list[idx + 1]), 90)>>) }
      [] video.kind = "blank" -> { Ocr(<<>>) }
      [] OTHER -> free

OcrChoices(video, idx, free) ==
    CASE video.kind = "count" -> { Ocr(<<R(Digits(video.base + idx), 90)>>) }
      [] video.kind = "markers" -> { Ocr(<<R(Digits(video.list[idx + 1]), 90)>>) }
      [] video.kind = "blank" -> { Ocr(<<>>) }
      [] video.kind = "scripted" -> { video.list[idx + 1].ocr }
      [] OTHER -> free

\* The gray intensities possible for frame idx of a video (cv2.cvtColor).
GrayChoices(video, idx) ==
    CASE video.kind = "count" -> { (video.base + idx) % (MaxGray + 1) }
      [] video.kind = "markers" -> { video.list[idx + 1] % (MaxGray + 1) }
      [] video.kind = "blank" -> { 0 }
      [] video.kind = "scripted" -> { video.list[idx + 1].gray }
      [] OTHER -> 0..MaxGray

(***************************************************************************)
(* The runs of the model: main() on a reference and a distorted file       *)
(* with --buffer (half seconds) and --seek-distorted (seconds).            *)
(***************************************************************************)
\* env: what the external tools may do in this run.  trim: ffmpeg exits 0
\* ("ok"), exits non-zero, or is not installed ("missing"); file: the trimmed
\* file is missing, cannot be opened, or is read; metric: the Docker run
\* returns 0, another code, or its invocation raises.
RunIn(env, r, d, b, s, re, de) ==
    [reference |-> r, distorted |-> d, buffer_seconds |-> b, seek_distorted |-> s,
     ref_exists |-> re, dist_exists |-> de, env |-> env]

\* Any behaviour of the external tools.
AnyEnv ==
    [trim |-> {"ok", "nonzero", "missing"},
     file |-> {"missing", "unopenable", "ok"},
     metric |-> {"ok", "nonzero", "exception"}]

Run(r, d, b, s, re, de) == RunIn(AnyEnv, r, d, b, s, re, de)

\* A short generated reference: markers 4, 5, 6, 7 at 1/16 fps (the
\* 60-second window holds its first 3 frames).
ShortReference == CountVideo(4, 1, 16, 4)
\* A generated distorted stream: markers 1..12 at 1 fps.
ShortDistorted == CountVideo(1, 1, 1, 12)

\* The end-to-end scenario: reference markers 1..300 at 30 fps, distorted
\* stream starting at marker 61, buffer 5.0, seek 0.0.
E2EReference == CountVideo(1, 30, 1, 300)
E2EDistorted == CountVideo(61, 30, 1, 300)
E2ERun == Run(E2EReference, E2EDistorted, 10, 0, TRUE, TRUE)

\* Qualifying detections [5,5,5,7,7,9] at confidence 0.9.
SymmetryRun ==
    Run(ShortReference, MarkerVideo(<<5, 5, 5, 7, 7, 9>>, 1, 1), 10, 0, TRUE, TRUE)

\* Freely chosen distorted streams at 1/8 fps and 1 fps.
FreeDistortedRuns ==
    { Run(ShortReference, FreeVideo(fr[1], fr[2], n), 10, s, TRUE, TRUE) :
        fr \in {<<1, 8>>, <<1, 1>>}, n \in 0..MaxFreeFrames, s \in {0, 8} }

\* Freely chosen references at 1/16 fps and 1/2 fps, and a reference cv2
\* cannot open; buffers 3.5 and 5.0.
FreeReferenceRuns ==
    { Run(r, ShortDistorted, b, s, TRUE, TRUE) :
        r \in {FreeVideo(fr[1], fr[2], n) :
                  fr \in {<<1, 16>>, <<1, 2>>}, n \in 0..MaxFreeFrames}
              \cup {Undecodable},
        b \in {7, 10}, s \in {0, 2} }

\* All-black distorted streams: shorter and longer than the scan windows,
\* at 1 fps and at 1/2 fps.
BlankRuns ==
    { Run(ShortReference, BlankVideo(fr[1], fr[2], n), 10, s, TRUE, TRUE) :
        fr \in {<<1, 1>>, <<1, 2>>}, n \in {3, 12, 35}, s \in {0, 2} }

\* A distorted file that exists but cannot be decoded, and missing files.
BrokenRuns ==
    { Run(ShortReference, Undecodable, 10, 0, TRUE, TRUE),
      Run(ShortReference, ShortDistorted, 10, 0, FALSE, TRUE),
      Run(ShortReference, ShortDistorted, 10, 0, TRUE, FALSE),
      Run(ShortReference, ShortDistorted, 10, 0, FALSE, FALSE) }

\* Sources that do not end within any scan window and never show a
\* marker: an all-black distorted stream at 1 fps, an all-black reference
\* at 1/16 fps.
EndlessRuns ==
    { Run(ShortReference, BlankVideo(1, 1, EndlessFrames), 10, s, TRUE, TRUE) :
        s \in {0, 2} }
    \cup { Run(BlankVideo(1, 16, EndlessFrames), ShortDistorted, 10, 0, TRUE, TRUE) }

\* Freely chosen distorted streams at 1/16 fps: the 30-second window holds
\* their first two frames, the 10-second window none.
SlowDistortedRuns ==
    { Run(ShortReference, FreeVideo(1, 16, n), 10, 0, TRUE, TRUE) :
        n \in 0..MaxFreeFrames }

\* Two distorted streams at 1 fps whose readings are fixed: qualifying 5,
\* then no text, a low-confidence 9 and a recognition error, then
\* qualifying 7; and qualifying 5, two low-confidence 9s, qualifying 5.
CarryOverRun ==
    Run(ShortReference,
        ScriptedVideo(<<[ocr |-> Ocr(<<R(<<5>>, 90)>>), gray |-> 1],
                        [ocr |-> Ocr(<<>>), gray |-> 0],
                        [ocr |-> Ocr(<<R(<<9>>, 50)>>), gray |-> 2],
                        [ocr |-> Raise, gray |-> 0],
                        [ocr |-> Ocr(<<R(<<7>>, 90)>>), gray |-> 1]>>, 1, 1),
        10, 0, TRUE, TRUE)

SameMarkerAgainRun ==
    Run(ShortReference,
        ScriptedVideo(<<[ocr |-> Ocr(<<R(<<5>>, 90)>>), gray |-> 1],
                        [ocr |-> Ocr(<<R(<<9>>, 50)>>), gray |-> 2],
                        [ocr |-> Ocr(<<R(<<9>>, 30)>>), gray |-> 2],
                        [ocr |-> Ocr(<<R(<<5>>, 90)>>), gray |-> 1]>>, 1, 1),
        10, 0, TRUE, TRUE)

Runs == {E2ERun, SymmetryRun, CarryOverRun, SameMarkerAgainRun}
            \cup FreeDistortedRuns \cup FreeReferenceRuns
            \cup BlankRuns \cup BrokenRuns \cup EndlessRuns
            \cup SlowDistortedRuns

\* The runs followed to their end under fairness: those whose freely
\* chosen videos have at most MaxLiveFrames frames.
LiveRuns ==
    { r \in Runs :
        /\ r.distorted.kind = "free" => r.distorted.n <= MaxLiveFrames
        /\ r.reference.kind = "free" => r.reference.n <= MaxLiveFrames }

(***************************************************************************)
(* Construction and main()                                                 *)
(***************************************************************************)
dist == run.distorted
ref == run.reference

(***************************************************************************)
(* plot_vmaf.py: the quality buckets of the histogram                      *)
(***************************************************************************)
\* get_quality_bucket(score)
get_quality_bucket(score) ==
    IF score >= 90 THEN "Excellent (90+)"
    ELSE IF score >= 74 THEN "Good (74-90)"
    ELSE IF score >= 58 THEN "Fair (58-74)"
    ELSE IF score >= 38 THEN "Poor (38-58)"
    ELSE "Bad (<38)"

\* The keys of buckets in plot_histogram.
BucketLabels ==
    {"Excellent (90+)", "Good (74-90)", "Fair (58-74)", "Poor (38-58)", "Bad (<38)"}

\* buckets as plot_histogram initialises it.
EmptyBuckets == [b \in BucketLabels |-> 0]

\* buckets after the loop `for score in scores: buckets[bucket] += 1`.
CountBuckets(ss) ==
    [b \in BucketLabels |->
        Cardinality({i \in 1..Len(ss) : get_quality_bucket(ss[i]) = b})]

\* The scale documented under VMAF SCORING in the module docstring of
\* video_sync_vmaf.py.
DocumentedQuality(score) ==
    IF score >= 90 THEN "Excellent"
    ELSE IF score >= 75 THEN "Good"
    ELSE IF score >= 60 THEN "Fair"
    ELSE "Poor"

Init ==
    /\ run \in Runs
    /\ previous = None
    /\ detection = None
    /\ log = <<>>
    /\ scores = <<>>
    /\ buckets = EmptyBuckets
    /\ pc = "main"
    /\ results_dir = FALSE
    /\ retval = None
    /\ raised = NoError
    /\ exit_code = None
    /\ handles = {}
    /\ trail = <<>>
    /\ degraded = {}
    /\ hard_failure = NoError
    /\ seen = <<>>
    /\ frame_count = 0
    /\ last_frame_number = None
    /\ last_confidence = None
    /\ sync_timestamp = None
    /\ sync_method = "none"
    /\ prev_frame = None
    /\ max_diff = 0
    /\ sync_frame = 0
    /\ analyze_frames = 0
    /\ start_time = None
    /\ ffmpeg_ss = None
    /\ first_frame_number = None
    /\ found_frame_position = None
    /\ vmaf_offset = None

scan_vars == <<seen, frame_count, last_frame_number, last_confidence,
               prev_frame, max_diff, sync_frame, analyze_frames>>
result_vars == <<sync_timestamp, sync_method, start_time, ffmpeg_ss,
                 first_frame_number, found_frame_position, vmaf_offset>>
outcome_vars == <<retval, raised, exit_code, degraded, hard_failure>>

\* A record of the log: what it reports, and the marker it shows if any.
Logged(event, value) == [event |-> event, value |-> value]

\* An exception escapes to main()'s handler.
Escapes(exc) == raised' = exc /\ pc' = "main_except"

\* self.reference_path.exists() and self.distorted_path.exists()
InputsExistReferenceOnly(r) == r.ref_exists

InputsExist(r) == r.ref_exists /\ r.dist_exists

\* VideoSyncVMAF.__init__, called from main(): the results directory and
\* the log file are created, then the two inputs are checked.
Construct ==
    /\ pc = "main"
    /\ results_dir' = TRUE
    /\ IF ~InputsExist(run)
          THEN Escapes("FileNotFoundError")
          ELSE pc' = "process" /\ raised' = raised
    /\ UNCHANGED <<run, scores, buckets, previous, detection, log, retval, exit_code, handles, trail, degraded, hard_failure,
                   scan_vars, result_vars>>

\* main(): sys.exit(0 if success else 1) when process() returned, and
\* sys.exit(1) in the handler of `except Exception`.
ExitStatusZeroUnlessFalse(returned, success) ==
    IF returned /\ success = Some(FALSE) THEN 1 ELSE 0

ExitStatus(returned, success) ==
    IF returned /\ success = Some(TRUE) THEN 0 ELSE 1

MainExit ==
    /\ pc \in {"returned", "main_except"}
    /\ exit_code' = Some(ExitStatus(pc = "returned", retval))
    /\ pc' = "exited"
    /\ UNCHANGED <<run, scores, buckets, previous, detection, log, results_dir, retval, raised, handles, trail, degraded,
                   hard_failure, scan_vars, result_vars>>

(***************************************************************************)
(* find_sync_point: the transition scan                                    *)
(***************************************************************************)
\* int(self.seek_distorted * fps) if self.seek_distorted > 0 else 0
SeekFrame(video) ==
    IF run.seek_distorted > 0
      THEN IntTrunc(run.seek_distorted * video.fpsN, video.fpsD)
      ELSE 0

\* frame_number is not None and confidence > 0.5
QualifiesAtThreshold(number, confidence) ==
    number # None /\ confidence >= ConfThreshold

Qualifies(number, confidence) ==
    number # None /\ confidence > ConfThreshold

\* last_frame_number is not None and last_confidence is not None and
\* last_confidence > 0.5 and last_frame_number != frame_number
IsTransitionUpward(last_n, last_c, number) ==
    /\ last_n # None
    /\ last_c # None
    /\ last_c[1] > ConfThreshold
    /\ last_n[1] < number[1]

IsTransitionFromNothing(last_n, last_c, number) == last_n # number

IsTransition(last_n, last_c, number) ==
    /\ last_n # None
    /\ last_c # None
    /\ last_c[1] > ConfThreshold
    /\ last_n # number

\* frame_count > (self.seek_distorted + 30) * fps
PastSyncWindowNever(count, video) == FALSE

PastSyncWindowInclusive(count, video) ==
    count * video.fpsD >= (run.seek_distorted + SyncWindowSeconds) * video.fpsN

PastSyncWindow(count, video) ==
    count * video.fpsD > (run.seek_distorted + SyncWindowSeconds) * video.fpsN

\* last_frame_number, last_confidence after a frame that did not declare the
\* sync point: updated only inside `if frame_number is not None and
\* confidence > 0.5`.
RememberedAfterResetting(last_n, last_c, number, confidence) ==
    IF Qualifies(number, confidence)
      THEN <<number, Some(confidence)>>
      ELSE <<None, None>>

RememberedAfter(last_n, last_c, number, confidence) ==
    IF Qualifies(number, confidence)
      THEN <<number, Some(confidence)>>
      ELSE <<last_n, last_c>>

\* process() enters step 1 and find_sync_point opens the distorted video.
FindSyncOpen ==
    /\ pc = "process"
    /\ trail' = Append(trail, "SYNC_SEARCH")
    /\ handles' = IF dist.kind = "undecodable"
                    THEN handles          \* the capture did not open
                    ELSE handles \cup {"sync"}
    /\ IF dist.fpsN = 0
          THEN \* duration = total_frames / fps with fps = 0.0
               /\ Escapes("ZeroDivisionError")
               /\ UNCHANGED scan_vars
          ELSE /\ pc' = "scan"
               /\ raised' = raised
               /\ frame_count' = SeekFrame(dist)
               /\ last_frame_number' = None
               /\ last_confidence' = None
               /\ seen' = <<>>
               /\ UNCHANGED <<prev_frame, max_diff, sync_frame, analyze_frames>>
    /\ UNCHANGED <<run, scores, buckets, previous, detection, log, results_dir, retval, exit_code, degraded, hard_failure,
                   result_vars>>

\* One iteration of the while loop of find_sync_point that reads a frame.
ScanRead ==
    /\ pc = "scan"
    /\ frame_count < dist.n
    /\ \E ocr \in OcrChoices(dist, frame_count, FreeOcr) :
         LET det == extract_frame_number_with_confidence(ocr)
             frame_number == det[1]
             confidence == det[2]
         IN  /\ seen' = Append(seen, ocr)
             /\ IF /\ Qualifies(frame_number, confidence)
                    /\ IsTransition(last_frame_number, last_confidence, frame_number)
                   THEN /\ sync_timestamp' = <<frame_count * dist.fpsD, dist.fpsN>>
                        /\ sync_method' = "transition"
                        /\ log' = Append(log, Logged("transition", frame_number))
                        /\ pc' = "scan_end"
                        /\ UNCHANGED <<frame_count, last_frame_number, last_confidence>>
                   ELSE /\ last_frame_number' =
                               RememberedAfter(last_frame_number, last_confidence,
                                               frame_number, confidence)[1]
                        /\ last_confidence' =
                               RememberedAfter(last_frame_number, last_confidence,
                                               frame_number, confidence)[2]
                        /\ frame_count' = frame_count + 1
                        /\ pc' = IF PastSyncWindow(frame_count + 1, dist)
                                   THEN "scan_end" ELSE "scan"
                        /\ UNCHANGED <<sync_timestamp, sync_method, log>>
    /\ UNCHANGED <<run, scores, buckets, previous, detection, results_dir, handles, trail, outcome_vars,
                   prev_frame, max_diff, sync_frame, analyze_frames,
                   start_time, ffmpeg_ss, first_frame_number, found_frame_position,
                   vmaf_offset>>

\* if sync_timestamp is None: ... find_sync_point_fallback(video_path)
AfterScanAlwaysFallback(ts) == "fallback_open"

AfterScan(ts) == IF ts = None THEN "fallback_open" ELSE "trim"

\* The loop of find_sync_point is left (end of stream, transition found or
\* 30-second limit): cap.release(), then the fallback if no sync point.
ScanEnd ==
    /\ \/ pc = "scan_end"
       \/ pc = "scan" /\ ~(frame_count < dist.n)
    /\ handles' = handles \ {"sync"}
    /\ pc' = AfterScan(sync_timestamp)
    /\ log' = IF AfterScan(sync_timestamp) = "fallback_open"
                THEN Append(log, Logged("using_fallback", None))
                ELSE log
    /\ UNCHANGED <<run, scores, buckets, previous, detection, results_dir, trail, outcome_vars, scan_vars, result_vars>>

(***************************************************************************)
(* find_sync_point_fallback: the difference scan                           *)
(***************************************************************************)
\* int(fps * 10)
FallbackWindowLong(video) == IntTrunc(video.fpsN * SyncWindowSeconds, video.fpsD)

FallbackWindow(video) == IntTrunc(video.fpsN * FallbackWindowSeconds, video.fpsD)

\* np.sum(cv2.absdiff(gray_curr, gray_prev)) of one-pixel frames
DiffScore(curr, prev) == IF curr >= prev THEN curr - prev ELSE prev - curr

\* if diff_score > max_diff
IsNewMaxOrTie(diff_score, max_d) == diff_score >= max_d

IsNewMax(diff_score, max_d) == diff_score > max_d

FallbackOpen ==
    /\ pc = "fallback_open"
    /\ handles' = handles \cup {"fallback"}
    /\ frame_count' = SeekFrame(dist)
    /\ prev_frame' = None
    /\ max_diff' = 0
    /\ sync_frame' = SeekFrame(dist)
    /\ analyze_frames' = SeekFrame(dist) + FallbackWindow(dist)
    /\ seen' = <<>>
    /\ pc' = "fallback"
    /\ UNCHANGED <<run, scores, buckets, previous, detection, log, results_dir, trail, outcome_vars, last_frame_number,
                   last_confidence, result_vars>>

\* One iteration of the while loop of find_sync_point_fallback that reads a
\* frame, up to its progress indicator: frame_count % int(fps).
FallbackRead ==
    /\ pc = "fallback"
    /\ frame_count < analyze_frames
    /\ frame_count < dist.n
    /\ \E gray \in GrayChoices(dist, frame_count) :
         LET diff_score == DiffScore(gray, prev_frame[1])
             better == prev_frame # None /\ IsNewMax(diff_score, max_diff)
         IN  /\ seen' = Append(seen, gray)
             /\ max_diff' = IF better THEN diff_score ELSE max_diff
             /\ sync_frame' = IF better THEN frame_count ELSE sync_frame
             /\ prev_frame' = Some(gray)
             /\ frame_count' = frame_count + 1
    /\ IF IntTrunc(dist.fpsN, dist.fpsD) = 0
          THEN Escapes("ZeroDivisionError")
          ELSE pc' = "fallback" /\ raised' = raised
    /\ UNCHANGED <<run, scores, buckets, previous, detection, log, results_dir, retval, exit_code, degraded, hard_failure,
                   handles, trail, analyze_frames, last_frame_number,
                   last_confidence, result_vars>>

\* The fallback loop is left: cap.release(), sync_timestamp = sync_frame / fps,
\* returned by find_sync_point to process().
FallbackEnd ==
    /\ pc = "fallback"
    /\ ~(frame_count < analyze_frames /\ frame_count < dist.n)
    /\ handles' = handles \ {"fallback"}
    /\ sync_timestamp' = <<sync_frame * dist.fpsD, dist.fpsN>>
    /\ sync_method' = "fallback"
    /\ pc' = "trim"
    /\ log' = Append(log, Logged("fallback_found", None))
    /\ UNCHANGED <<run, scores, buckets, previous, detection, results_dir, trail, outcome_vars, scan_vars,
                   start_time, ffmpeg_ss, first_frame_number, found_frame_position,
                   vmaf_offset>>

(***************************************************************************)
(* trim_video                                                              *)
(***************************************************************************)
\* start_time = max(0, round(offset_seconds) + self.buffer_seconds), in half
\* seconds, for the offset ts = <<p, q>>
StartTimeUnclamped(ts, buffer) == 2 * PyRound(ts[1], ts[2]) + buffer

StartTime(ts, buffer) == Max(0, 2 * PyRound(ts[1], ts[2]) + buffer)

\* '-ss', str(int(start_time))
SeekArgument(start) == IntTrunc(start, 2)

\* What process() does with trim_video's result: "ok" is exit code 0,
\* "nonzero" a CalledProcessError (trim_video returns False), "missing" the
\* FileNotFoundError of an ffmpeg that is not installed (not caught).
AfterTrimIgnoringFailure(rc) == IF rc = "missing" THEN "main_except" ELSE "post_trim"

AfterTrim(rc) ==
    CASE rc = "ok" -> "post_trim"
      [] rc = "nonzero" -> "returned"
      [] OTHER -> "main_except"

\* Step 2 of process(): trim_video(sync_timestamp).
TrimVideo ==
    /\ pc = "trim"
    /\ IF sync_timestamp = None
          THEN \* "Could not determine sync point"
               /\ retval' = Some(FALSE)
               /\ pc' = "returned"
               /\ UNCHANGED <<trail, start_time, ffmpeg_ss, raised, hard_failure>>
          ELSE /\ trail' = Append(trail, "TRIM")
               /\ start_time' = Some(StartTime(sync_timestamp, run.buffer_seconds))
               /\ ffmpeg_ss' =
                      Some(SeekArgument(StartTime(sync_timestamp, run.buffer_seconds)))
               /\ \E rc \in run.env.trim :
                     /\ pc' = AfterTrim(rc)
                     /\ hard_failure' = IF rc = "nonzero" THEN "TRIM" ELSE hard_failure
                     /\ retval' = IF AfterTrim(rc) = "returned"
                                    THEN Some(FALSE) ELSE retval
                     /\ raised' = IF AfterTrim(rc) = "main_except"
                                    THEN "FileNotFoundError" ELSE raised
    /\ seen' = <<>>
    /\ log' = <<>>
    /\ UNCHANGED <<run, scores, buckets, previous, detection, results_dir, exit_code, degraded, handles, frame_count,
                   last_frame_number, last_confidence, prev_frame, max_diff,
                   sync_frame, analyze_frames, sync_timestamp, sync_method,
                   first_frame_number, found_frame_position, vmaf_offset>>

(***************************************************************************)
(* get_first_frame_number                                                  *)
(***************************************************************************)
\* The first frame of the file ffmpeg wrote with -ss ss -c copy, taking
\* ffmpeg to cut at the requested second: the first frame of the input at or
\* after ss seconds.
CutFrame(ss, video) == (ss * video.fpsN + video.fpsD - 1) \div video.fpsD

\* The OCR of the first frame in get_first_frame_number (no threshold).
FirstFrameNumberOfAnyText(ocr) ==
    IF ocr.raises THEN None
    ELSE IF Len(ocr.results) = 0 THEN None
    ELSE Some(ParseInt(BestResult(ocr.results).text))

FirstFrameNumberOfConfident(ocr) ==
    IF ocr.raises THEN None
    ELSE IF Len(ocr.results) = 0 THEN None
    ELSE LET best == BestResult(ocr.results)
         IN  IF IsDigit(best.text) /\ best.conf > ConfThreshold
               THEN Some(ParseInt(best.text)) ELSE None

FirstFrameNumberOf(ocr) ==
    IF ocr.raises THEN None
    ELSE IF Len(ocr.results) = 0 THEN None
    ELSE LET best == BestResult(ocr.results)
         IN  IF IsDigit(best.text) THEN Some(ParseInt(best.text)) ELSE None

\* vmaf_offset = 0
ZeroOffset == <<0, 1>>

\* if first_frame_number is not None: step 6, else "using 0" and step 7
AfterFirstFrameAlwaysLocate(number) == "locate_open"

AfterFirstFrame(number) == IF number # None THEN "locate_open" ELSE "metric"

\* Steps 4 and 5 of process(): get_first_frame_number(), and the branch on
\* its result.  file: the trimmed file is missing, cannot be opened, or is
\* read.  seen becomes the OCR outcome of the frame read, or stays empty when
\* no frame could be read.
GetFirstFrameNumber ==
    /\ pc = "post_trim"
    /\ trail' = Append(trail, "POST_TRIM_READ")
    /\ \E file \in run.env.file :
         LET j == CutFrame(ffmpeg_ss[1], dist)
             reads ==
                 IF file = "ok" /\ j < dist.n
                   THEN { <<ocr>> : ocr \in OcrChoices(dist, j, RichOcr) }
                   ELSE { <<>> }
         IN  \E read \in reads :
               LET number == IF Len(read) = 0 THEN None
                             ELSE FirstFrameNumberOf(read[1])
               IN  /\ seen' = read
                   /\ first_frame_number' = number
                   /\ pc' = AfterFirstFrame(number)
                   /\ IF number # None
                         THEN UNCHANGED <<vmaf_offset, degraded>>
                         ELSE /\ vmaf_offset' = ZeroOffset
                              /\ degraded' = degraded \cup {"POST_TRIM_READ"}
    /\ UNCHANGED <<run, scores, buckets, previous, detection, log, results_dir, retval, raised, exit_code, hard_failure,
                   handles, frame_count, last_frame_number, last_confidence,
                   prev_frame, max_diff, sync_frame, analyze_frames,
                   sync_timestamp, sync_method, start_time,
                   ffmpeg_ss, found_frame_position>>

(***************************************************************************)
(* find_frame_in_original_video                                            *)
(***************************************************************************)
\* int(fps * 60)
LocateWindowPlusOne(video) == IntTrunc(video.fpsN * LocateWindowSeconds, video.fpsD) + 1

LocateWindow(video) == IntTrunc(video.fpsN * LocateWindowSeconds, video.fpsD)

\* The first frame the locator reads: frame 0 (no seek).
LocateStart == 0

\* detected_number of one reference frame (readtext is not guarded here)
DetectedNumber(ocr) ==
    IF Len(ocr.results) = 0 THEN None
    ELSE LET best == BestResult(ocr.results)
         IN  IF IsDigit(best.text) THEN Some(ParseInt(best.text)) ELSE None

\* What the per-frame log line shows: {detected_number if detected_number
\* else 'no number'}.  None stands for 'no number'; a value is falsy when it
\* is None or 0.
LoggedNumber(detected) ==
    IF detected # None /\ detected[1] # 0 THEN detected ELSE None

\* detected_number == target_frame_number
LocatorMatchesConfident(ocr, target) ==
    /\ DetectedNumber(ocr) = target
    /\ BestResult(ocr.results).conf > ConfThreshold

LocatorMatches(ocr, target) == DetectedNumber(ocr) = target

\* vmaf_offset = found_frame_position / 30.0
OffsetAtRealFps(position) == <<position * ref.fpsD, ref.fpsN>>

OffsetOfNext(position) == <<position + 1, AssumedFps>>

OffsetOf(position) == <<position, AssumedFps>>

\* Step 6 of process(): find_frame_in_original_video opens the reference.
LocateOpen ==
    /\ pc = "locate_open"
    /\ trail' = Append(trail, "REFERENCE_LOCATE")
    /\ IF ref.kind = "undecodable"
          THEN \* not cap.isOpened(): return None, "using 0"
               /\ found_frame_position' = None
               /\ vmaf_offset' = ZeroOffset
               /\ degraded' = degraded \cup {"REFERENCE_LOCATE"}
               /\ pc' = "metric"
               /\ UNCHANGED <<handles, frame_count>>
          ELSE /\ handles' = handles \cup {"locate"}
               /\ frame_count' = LocateStart
               /\ pc' = "locate"
               /\ UNCHANGED <<found_frame_position, vmaf_offset, degraded>>
    /\ seen' = <<>>
    /\ log' = <<>>
    /\ UNCHANGED <<run, scores, buckets, previous, detection, results_dir, retval, raised, exit_code, hard_failure,
                   last_frame_number, last_confidence, prev_frame, max_diff,
                   sync_frame, analyze_frames, sync_timestamp, sync_method,
                   start_time, ffmpeg_ss, first_frame_number>>

\* One iteration of the while loop of find_frame_in_original_video; on a
\* match the function returns and process() converts the position.
LocateRead ==
    /\ pc = "locate"
    /\ frame_count < LocateWindow(ref)
    /\ frame_count < ref.n
    /\ \E ocr \in OcrChoices(ref, frame_count, RichOcr) :
         /\ seen' = Append(seen, ocr)
         /\ log' = IF ocr.raises THEN log
                    ELSE Append(log, Logged("frame", LoggedNumber(DetectedNumber(ocr))))
         /\ IF ocr.raises
               THEN /\ Escapes("OcrError")
                    /\ UNCHANGED <<handles, frame_count, found_frame_position,
                                   vmaf_offset>>
               ELSE IF LocatorMatches(ocr, first_frame_number)
               THEN /\ handles' = handles \ {"locate"}
                    /\ found_frame_position' = Some(frame_count)
                    /\ vmaf_offset' = OffsetOf(frame_count)
                    /\ pc' = "metric"
                    /\ UNCHANGED <<frame_count, raised>>
               ELSE /\ frame_count' = frame_count + 1
                    /\ pc' = "locate"
                    /\ UNCHANGED <<handles, raised, found_frame_position, vmaf_offset>>
    /\ UNCHANGED <<run, scores, buckets, previous, detection, results_dir, retval, exit_code, degraded,
                   hard_failure, trail, last_frame_number, last_confidence, prev_frame,
                   max_diff, sync_frame, analyze_frames, sync_timestamp, sync_method,
                   start_time, ffmpeg_ss, first_frame_number>>

\* The locator's loop is left without a match: cap.release(), return None;
\* process() uses 0.
LocateEnd ==
    /\ pc = "locate"
    /\ ~(frame_count < LocateWindow(ref) /\ frame_count < ref.n)
    /\ handles' = handles \ {"locate"}
    /\ found_frame_position' = None
    /\ vmaf_offset' = ZeroOffset
    /\ degraded' = degraded \cup {"REFERENCE_LOCATE"}
    /\ pc' = "metric"
    /\ UNCHANGED <<run, scores, buckets, previous, detection, log, results_dir, retval, raised, exit_code, hard_failure,
                   trail, scan_vars, sync_timestamp, sync_method, start_time,
                   ffmpeg_ss, first_frame_number>>

(***************************************************************************)
(* run_vmaf_analysis, copy_distorted_file, generate_vmaf_plots             *)
(***************************************************************************)
\* What process() does with run_vmaf_analysis's result: "ok" is return code
\* 0 (True), "nonzero" another return code (False), "exception" anything
\* raised inside its try block (caught: False).
AfterMetricIgnoringFailure(out) == "copy"

AfterMetric(out) == IF out = "ok" THEN "copy" ELSE "returned"

\* Step 7 of process(): run_vmaf_analysis(vmaf_offset).
RunVmafAnalysis ==
    /\ pc = "metric"
    /\ trail' = Append(trail, "METRIC_INVOKE")
    /\ seen' = <<>>
    /\ \E out \in run.env.metric :
         /\ pc' = AfterMetric(out)
         /\ hard_failure' = IF out = "ok" THEN hard_failure ELSE "METRIC_INVOKE"
         /\ retval' = IF AfterMetric(out) = "returned" THEN Some(FALSE) ELSE retval
    /\ log' = <<>>
    /\ UNCHANGED <<run, scores, buckets, previous, detection, results_dir, raised, exit_code, degraded, handles,
                   frame_count, last_frame_number, last_confidence, prev_frame,
                   max_diff, sync_frame, analyze_frames, result_vars>>

\* Step 8 of process(): a failed copy is only warned about.
CopyDistortedFile ==
    /\ pc = "copy"
    /\ trail' = Append(trail, "COPY")
    /\ \E ok \in BOOLEAN :
         degraded' = IF ok THEN degraded ELSE degraded \cup {"COPY"}
    /\ pc' = "plots"
    /\ UNCHANGED <<run, scores, buckets, previous, detection, log, results_dir, retval, raised, exit_code, hard_failure,
                   handles, scan_vars, result_vars>>

\* What process() returns after step 9: a failed plot is only warned about,
\* then return True.
ProcessReturnIfPlotted(plots_ok) == plots_ok

ProcessReturn(plots_ok) == TRUE

\* Step 9 of process() and its return.
GenerateVmafPlots ==
    /\ pc = "plots"
    /\ trail' = Append(trail, "PLOTS")
    /\ \E ok \in BOOLEAN :
         /\ degraded' = IF ok THEN degraded ELSE degraded \cup {"PLOTS"}
         /\ retval' = Some(ProcessReturn(ok))
    /\ pc' = "returned"
    /\ UNCHANGED <<run, scores, buckets, previous, detection, log, results_dir, raised, exit_code, hard_failure,
                   handles, scan_vars, result_vars>>

(***************************************************************************)
(* The program                                                             *)
(***************************************************************************)
Next ==
    \/ Construct
    \/ MainExit
    \/ FindSyncOpen
    \/ ScanRead
    \/ ScanEnd
    \/ FallbackOpen
    \/ FallbackRead
    \/ FallbackEnd
    \/ TrimVideo
    \/ GetFirstFrameNumber
    \/ LocateOpen
    \/ LocateRead
    \/ LocateEnd
    \/ RunVmafAnalysis
    \/ CopyDistortedFile
    \/ GenerateVmafPlots

Spec == Init /\ [][Next]_vars

\* main() runs to its end: the interpreter keeps executing the statement it
\* stands at, so a step that is possible is eventually taken.
InitLive == Init /\ run \in LiveRuns

SpecLive == InitLive /\ [][Next]_vars /\ WF_vars(Next)

(***************************************************************************)
(* Two invocations of main() on the same inputs.  The frames of a scripted *)
(* video and the behaviour of the external tools are fixed by the run, so  *)
(* the second invocation is given exactly what the first was given; it is  *)
(* a new process: nothing but the inputs is carried over.  previous keeps  *)
(* the first invocation's results for comparison.                          *)
(***************************************************************************)
\* What a frame of a scripted video may be.
ScriptedFrames ==
    { [ocr |-> Ocr(<<R(<<5>>, 90)>>), gray |-> 1],
      [ocr |-> Ocr(<<R(<<7>>, 51)>>), gray |-> 2],
      [ocr |-> Ocr(<<>>), gray |-> 0],
      [ocr |-> Raise, gray |-> 0] }

ScriptedLists == UNION { [1..n -> ScriptedFrames] : n \in 0..MaxScripted }

\* External tools that behave the same way every time.
FixedEnvs ==
    { [trim |-> {t}, file |-> {f}, metric |-> {m}] :
        t \in AnyEnv.trim, f \in AnyEnv.file, m \in AnyEnv.metric }

OkEnv == [trim |-> {"ok"}, file |-> {"ok"}, metric |-> {"ok"}]

\* Scripted distorted streams at 1 fps (buffers 0 and 1.0), every fixed
\* behaviour of the tools on the generated streams (buffer 3.5), and
\* scripted references at 1/16 fps.
TwiceRuns ==
    { RunIn(OkEnv, ShortReference, ScriptedVideo(l, 1, 1), b, 0, TRUE, TRUE) :
        l \in ScriptedLists, b \in {0, 2} }
    \cup { RunIn(e, ShortReference, ShortDistorted, 7, 0, TRUE, TRUE) : e \in FixedEnvs }
    \cup { RunIn(OkEnv, ScriptedVideo(l, 1, 16), ShortDistorted, 7, 0, TRUE, TRUE) :
             l \in ScriptedLists }

InitTwice ==
    /\ run \in TwiceRuns
    /\ previous = None
    /\ detection = None
    /\ log = <<>>
    /\ scores = <<>>
    /\ buckets = EmptyBuckets
    /\ pc = "main"
    /\ results_dir = FALSE
    /\ retval = None
    /\ raised = NoError
    /\ exit_code = None
    /\ handles = {}
    /\ trail = <<>>
    /\ degraded = {}
    /\ hard_failure = NoError
    /\ seen = <<>>
    /\ frame_count = 0
    /\ last_frame_number = None
    /\ last_confidence = None
    /\ sync_timestamp = None
    /\ sync_method = "none"
    /\ prev_frame = None
    /\ max_diff = 0
    /\ sync_frame = 0
    /\ analyze_frames = 0
    /\ start_time = None
    /\ ffmpeg_ss = None
    /\ first_frame_number = None
    /\ found_frame_position = None
    /\ vmaf_offset = None

\* The command is invoked again on the same inputs after the first
\* invocation has exited: a new process in its initial state.
Rerun ==
    /\ pc = "exited"
    /\ previous = None
    /\ previous' = Some([sync_timestamp |-> sync_timestamp,
                         start_time |-> start_time,
                         vmaf_offset |-> vmaf_offset,
                         exit_code |-> exit_code])
    /\ pc' = "main"
    /\ results_dir' = FALSE
    /\ retval' = None
    /\ raised' = NoError
    /\ exit_code' = None
    /\ handles' = {}
    /\ trail' = <<>>
    /\ degraded' = {}
    /\ hard_failure' = NoError
    /\ seen' = <<>>
    /\ frame_count' = 0
    /\ last_frame_number' = None
    /\ last_confidence' = None
    /\ sync_timestamp' = None
    /\ sync_method' = "none"
    /\ prev_frame' = None
    /\ max_diff' = 0
    /\ sync_frame' = 0
    /\ analyze_frames' = 0
    /\ start_time' = None
    /\ ffmpeg_ss' = None
    /\ first_frame_number' = None
    /\ found_frame_position' = None
    /\ vmaf_offset' = None
    /\ log' = <<>>
    /\ UNCHANGED <<run, scores, buckets, detection>>

NextTwice == Next \/ Rerun

SpecTwice == InitTwice /\ [][NextTwice]_vars

(***************************************************************************)
(* trim_video's start_time as a function of its inputs: every offset from  *)
(* -TrimMinOffset to TrimMaxOffset seconds in quarter seconds, every       *)
(* buffer from 0 to TrimMaxBuffer seconds in half seconds.                 *)
(***************************************************************************)
InitTrim ==
    /\ \E b \in 0..(2 * TrimMaxBuffer) :
         run = Run(ShortReference, ShortDistorted, b, 0, TRUE, TRUE)
    /\ \E o \in (-4 * TrimMinOffset)..(4 * TrimMaxOffset) : sync_timestamp = <<o, 4>>
    /\ pc = "trim_fn"
    /\ previous = None
    /\ detection = None
    /\ log = <<>>
    /\ scores = <<>>
    /\ buckets = EmptyBuckets
    /\ results_dir = TRUE
    /\ retval = None
    /\ raised = NoError
    /\ exit_code = None
    /\ handles = {}
    /\ trail = <<>>
    /\ degraded = {}
    /\ hard_failure = NoError
    /\ seen = <<>>
    /\ frame_count = 0
    /\ last_frame_number = None
    /\ last_confidence = None
    /\ sync_method = "given"
    /\ prev_frame = None
    /\ max_diff = 0
    /\ sync_frame = 0
    /\ analyze_frames = 0
    /\ start_time = None
    /\ ffmpeg_ss = None
    /\ first_frame_number = None
    /\ found_frame_position = None
    /\ vmaf_offset = None

\* The first statement of trim_video and the -ss argument built from it.
TrimStart ==
    /\ pc = "trim_fn"
    /\ start_time' = Some(StartTime(sync_timestamp, run.buffer_seconds))
    /\ ffmpeg_ss' = Some(SeekArgument(StartTime(sync_timestamp, run.buffer_seconds)))
    /\ pc' = "trim_fn_done"
    /\ UNCHANGED <<run, scores, buckets, previous, detection, log, results_dir, retval, raised, exit_code, handles, trail,
                   degraded, hard_failure, scan_vars, sync_timestamp, sync_method,
                   first_frame_number, found_frame_position, vmaf_offset>>

NextTrim == TrimStart

SpecTrim == InitTrim /\ [][NextTrim]_vars

(***************************************************************************)
(* extract_frame_number_with_confidence as a function of what readtext     *)
(* does on the frame: it raises, or returns up to MaxRegions regions, each *)
(* a text with a confidence.  seen holds the one OCR outcome given.        *)
(***************************************************************************)
\* Texts of a region: the empty string, "5", "07", "12", and "1 " (10 stands
\* for a character that is not a digit).
ReaderTexts == { <<>>, <<5>>, <<0, 7>>, <<1, 2>>, <<1, 10>> }

ReaderConfidences == { 30, 50, 90 }

ReaderRegions == { R(t, c) : t \in ReaderTexts, c \in ReaderConfidences }

ReaderOutcomes ==
    { Raise } \cup
    { Ocr(l) : l \in UNION { [1..n -> ReaderRegions] : n \in 0..MaxRegions } }

InitReader ==
    /\ \E ocr \in ReaderOutcomes : seen = <<ocr>>
    /\ run = Run(ShortReference, ShortDistorted, 10, 0, TRUE, TRUE)
    /\ previous = None
    /\ detection = None
    /\ log = <<>>
    /\ scores = <<>>
    /\ buckets = EmptyBuckets
    /\ pc = "reader"
    /\ results_dir = TRUE
    /\ retval = None
    /\ raised = NoError
    /\ exit_code = None
    /\ handles = {}
    /\ trail = <<>>
    /\ degraded = {}
    /\ hard_failure = NoError
    /\ frame_count = 0
    /\ last_frame_number = None
    /\ last_confidence = None
    /\ sync_timestamp = None
    /\ sync_method = "none"
    /\ prev_frame = None
    /\ max_diff = 0
    /\ sync_frame = 0
    /\ analyze_frames = 0
    /\ start_time = None
    /\ ffmpeg_ss = None
    /\ first_frame_number = None
    /\ found_frame_position = None
    /\ vmaf_offset = None

\* One call of extract_frame_number_with_confidence(frame).
ReadMarker ==
    /\ pc = "reader"
    /\ detection' = Some(extract_frame_number_with_confidence(seen[1]))
    /\ pc' = "reader_done"
    /\ UNCHANGED <<run, scores, buckets, previous, log, results_dir, retval, raised, exit_code,
                   handles, trail, degraded, hard_failure, scan_vars, result_vars>>

NextReader == ReadMarker

SpecReader == InitReader /\ [][NextReader]_vars

(***************************************************************************)
(* plot_vmaf.py main(): the scores of the metric's JSON output are loaded   *)
(* (a non-empty list, here of whole scores on the 0..100 scale), then      *)
(* plot_histogram counts them per bucket.                                  *)
(***************************************************************************)
MaxScore == 100

MaxHistogramScores == 2

ScoreLists ==
    UNION { [1..n -> 0..MaxScore] : n \in 1..MaxHistogramScores }

InitPlot ==
    /\ scores \in ScoreLists
    /\ buckets = EmptyBuckets
    /\ run = Run(ShortReference, ShortDistorted, 10, 0, TRUE, TRUE)
    /\ previous = None
    /\ detection = None
    /\ log = <<>>
    /\ pc = "plot"
    /\ results_dir = TRUE
    /\ retval = None
    /\ raised = NoError
    /\ exit_code = None
    /\ handles = {}
    /\ trail = <<>>
    /\ degraded = {}
    /\ hard_failure = NoError
    /\ seen = <<>>
    /\ frame_count = 0
    /\ last_frame_number = None
    /\ last_confidence = None
    /\ sync_timestamp = None
    /\ sync_method = "none"
    /\ prev_frame = None
    /\ max_diff = 0
    /\ sync_frame = 0
    /\ analyze_frames = 0
    /\ start_time = None
    /\ ffmpeg_ss = None
    /\ first_frame_number = None
    /\ found_frame_position = None
    /\ vmaf_offset = None

\* plot_histogram(scores, ...): every score is counted in its bucket.
PlotHistogram ==
    /\ pc = "plot"
    /\ buckets' = CountBuckets(scores)
    /\ pc' = "plotted"
    /\ UNCHANGED <<run, scores, previous, detection, log, results_dir, retval,
                   raised, exit_code, handles, trail, degraded, hard_failure,
                   scan_vars, result_vars>>

NextPlot == PlotHistogram

SpecPlot == InitPlot /\ [][NextPlot]_vars

(***************************************************************************)
(* Properties.  seen holds the frames the scanning loop in progress (or    *)
(* just finished) has read, in order; the properties below are stated over *)
(* it and over the values the stages hand on.                              *)
(***************************************************************************)
\* The stage process() is in (the last one entered).
Stage == IF trail = <<>> THEN "none" ELSE trail[Len(trail)]

InScan == pc \in {"scan", "scan_end"}

\* The detection of the i-th frame the transition scan read.
SeenDet(i) == extract_frame_number_with_confidence(seen[i])

\* The i-th frame read carries a marker with confidence strictly above 0.5.
StrictlyConfident(i) == SeenDet(i)[1] # None /\ SeenDet(i)[2] > 50

\* The i-th frame read is a strictly confident reading whose marker differs
\* from that of the strictly confident reading immediately before it.
HasTransitionAt(i) ==
    /\ StrictlyConfident(i)
    /\ \E j \in 1..(i - 1) :
         /\ StrictlyConfident(j)
         /\ \A k \in (j + 1)..(i - 1) : ~StrictlyConfident(k)
         /\ SeenDet(j)[1] # SeenDet(i)[1]

\* C1 (as stated): in the end-to-end scenario the transition is detected
\* near distorted time 2.0 s, the trim starts at 7.0 s, marker 271 is read
\* from the trimmed first frame and located at reference frame 270, and the
\* offset handed to the metric tool is 9.0 s.
C1_EndToEndAsStated ==
    (run = E2ERun /\ pc = "metric" /\ first_frame_number # None) =>
        /\ sync_method = "transition"
        /\ 2 * sync_timestamp[1] >= 3 * sync_timestamp[2]
        /\ 2 * sync_timestamp[1] <= 5 * sync_timestamp[2]
        /\ start_time = Some(14)
        /\ first_frame_number = Some(271)
        /\ found_frame_position = Some(270)
        /\ vmaf_offset = <<270, 30>>

\* C1 (amended): in the end-to-end scenario the transition is detected at
\* distorted frame 1 (1/30 s), the trim starts at round(1/30) + 5.0 = 5.0 s,
\* the marker read from the trimmed first frame is 211, it is located at
\* reference frame 210, and the offset handed to the metric tool is
\* 210/30 = 7.0 s.
C1_EndToEnd ==
    (run = E2ERun /\ Stage \in {"POST_TRIM_READ", "REFERENCE_LOCATE", "METRIC_INVOKE",
                                "COPY", "PLOTS"}) =>
        /\ sync_method = "transition"
        /\ sync_timestamp = <<1, 30>>
        /\ start_time = Some(10)
        /\ ffmpeg_ss = Some(5)
        /\ (first_frame_number # None => first_frame_number = Some(211))
        /\ (pc \in {"metric", "copy", "plots", "returned", "exited"}
                /\ first_frame_number # None =>
                /\ found_frame_position = Some(210)
                /\ vmaf_offset = <<210, 30>>)

C1_Witness ==
    /\ run = E2ERun
    /\ Stage = "METRIC_INVOKE"
    /\ first_frame_number = Some(211)
    /\ vmaf_offset = <<210, 30>>

\* C2: in the transition scan a detection of confidence exactly 0.5 never
\* qualifies (it neither declares the sync point nor becomes the remembered
\* detection), and every detection with a marker and a confidence above 0.5
\* does: the remembered detection is always the latest strictly confident
\* one, and only a strictly confident frame declares the sync point.
C2_ConfidenceBoundary ==
    InScan =>
        LET remembered == IF sync_timestamp # None THEN Len(seen) - 1 ELSE Len(seen)
            quals == {i \in 1..remembered : StrictlyConfident(i)}
        IN  /\ (sync_timestamp # None => StrictlyConfident(Len(seen)))
            /\ IF quals = {}
                  THEN last_frame_number = None /\ last_confidence = None
                  ELSE LET m == CHOOSE i \in quals : \A j \in quals : j <= i
                       IN  /\ last_frame_number = SeenDet(m)[1]
                           /\ last_confidence = Some(SeenDet(m)[2])

C2_Witness ==
    /\ pc = "scan"
    /\ Len(seen) = 2
    /\ SeenDet(1) = <<Some(7), 51>>
    /\ SeenDet(2) = <<Some(5), 50>>
    /\ last_frame_number = Some(7)
    /\ sync_timestamp = None

\* C3: the transition scan stops at the first frame whose strictly
\* confident marker differs from the previous strictly confident marker,
\* whatever the change, and its sync point is that frame's index / fps; on
\* the markers [5,5,5,7,7,9] that is frame 3 (5 -> 7), not frame 5.
C3_FirstTransition ==
    InScan =>
        /\ \A i \in 1..(Len(seen) - 1) : ~HasTransitionAt(i)
        /\ IF Len(seen) > 0 /\ HasTransitionAt(Len(seen))
              THEN /\ pc = "scan_end"
                   /\ sync_timestamp =
                        <<(SeekFrame(dist) + Len(seen) - 1) * dist.fpsD, dist.fpsN>>
              ELSE sync_timestamp = None
        /\ (run = SymmetryRun /\ pc = "scan_end" => sync_timestamp = <<3, 1>>)

C3_Witness ==
    /\ run = SymmetryRun
    /\ pc = "scan_end"
    /\ Len(seen) = 4
    /\ sync_timestamp = <<3, 1>>

\* C4: for every offset and buffer, start_time = max(0, round(offset) +
\* buffer): it is never negative and equals round(offset) + buffer whenever
\* that sum is not negative.  round is stated here by its meaning: the
\* nearest integer, the even one of a tie.
C4_TrimBoundary ==
    pc = "trim_fn_done" =>
        LET p == sync_timestamp[1]
            q == sync_timestamp[2]
            dist2(r) == IF 2 * (p - r * q) >= 0 THEN 2 * (p - r * q) ELSE 2 * (r * q - p)
            r == CHOOSE k \in (p \div q)..((p \div q) + 1) :
                     \/ dist2(k) < q
                     \/ dist2(k) = q /\ k % 2 = 0
            total == 2 * r + run.buffer_seconds
        IN  /\ start_time[1] >= 0
            /\ (total >= 0 => start_time[1] = total)
            /\ (total < 0 => start_time[1] = 0)

C4_Witness ==
    /\ pc = "trim_fn_done"
    /\ sync_timestamp = <<-18, 4>>
    /\ run.buffer_seconds = 3
    /\ start_time = Some(0)

\* C5: the locator never reads a frame beyond the first 60 seconds of the
\* reference, and when it returns None it has read exactly int(fps*60)
\* frames, or all frames of a shorter video.
C5_LocatorBounded ==
    /\ "locate" \in handles =>
          Len(seen) <= (60 * ref.fpsN) \div ref.fpsD
    /\ (Stage = "REFERENCE_LOCATE" /\ pc = "metric" /\ found_frame_position = None) =>
          Len(seen) = Min((60 * ref.fpsN) \div ref.fpsD, ref.n)

C5_Witness ==
    /\ Stage = "REFERENCE_LOCATE"
    /\ pc = "metric"
    /\ found_frame_position = None
    /\ Len(seen) = 3
    /\ ref.kind = "free"
    /\ ref.n > 3

\* The i-th reference frame read shows the target: the text of its
\* highest-confidence region is numeric and its value is the target.
SeenShowsTarget(i) ==
    /\ ~seen[i].raises
    /\ Len(seen[i].results) > 0
    /\ IsDigit(BestResult(seen[i].results).text)
    /\ Some(ParseInt(BestResult(seen[i].results).text)) = first_frame_number

\* C6: the locator scans from frame 0 of the reference and returns the
\* smallest frame index whose selected text is numeric and equals the
\* target, whatever its confidence; frames that show another marker or none
\* do not end the scan.
C6_LocatorFirstMatch ==
    (Stage = "REFERENCE_LOCATE" /\ pc \in {"locate", "metric"}
        /\ ref.kind # "undecodable") =>
        LET matches == {i \in 1..Len(seen) : SeenShowsTarget(i)}
        IN  /\ pc = "locate" => matches = {} /\ frame_count = Len(seen)
            /\ (pc = "metric" /\ found_frame_position # None) =>
                    /\ matches = {Len(seen)}
                    /\ found_frame_position = Some(Len(seen) - 1)
            /\ (pc = "metric" /\ found_frame_position = None) => matches = {}

C6_Witness ==
    /\ Stage = "REFERENCE_LOCATE"
    /\ pc = "metric"
    /\ run.seek_distorted > 0
    /\ found_frame_position = Some(2)
    /\ seen[1] = Ocr(<<>>)
    /\ seen[2] = Ocr(<<R(<<0>>, 90)>>)
    /\ seen[3] = Ocr(<<R(<<7>>, 30)>>)

\* The fallback scan is running, has raised, or has just returned.
InFallback ==
    \/ "fallback" \in handles
    \/ pc = "trim" /\ sync_method = "fallback"

\* C7: when every consecutive-frame difference is zero (an all-black video)
\* the fallback returns, without error, the timestamp of the first frame of
\* its window.
C7_ZeroDifference ==
    (InFallback /\ dist.kind = "blank"
        /\ \A i \in 1..(Len(seen) - 1) : seen[i] = seen[i + 1]) =>
        /\ raised = NoError
        /\ (pc = "trim" => sync_timestamp = <<SeekFrame(dist) * dist.fpsD, dist.fpsN>>)

\* C8: the fallback reads at most int(fps*10) frames, consecutively from the
\* seek frame, and the timestamp it returns lies between the seek frame's
\* timestamp and the end of that window.
C8_FallbackWindow ==
    /\ InFallback =>
          /\ Len(seen) <= (10 * dist.fpsN) \div dist.fpsD
          /\ frame_count = SeekFrame(dist) + Len(seen)
    /\ sync_method = "fallback" =>
          LET p == sync_timestamp[1]
              q == sync_timestamp[2]
              first == SeekFrame(dist)
              last == SeekFrame(dist) + ((10 * dist.fpsN) \div dist.fpsD)
          IN  /\ p * dist.fpsN >= first * dist.fpsD * q
              /\ p * dist.fpsN <= last * dist.fpsD * q

C8_Witness ==
    /\ pc = "trim"
    /\ sync_method = "fallback"
    /\ Len(seen) = 10
    /\ dist.n > SeekFrame(dist) + 10
    /\ run.seek_distorted > 0

\* C9: the sync stage never fails: find_sync_point always returns a
\* timestamp (the fallback's when no transition was declared) and process()
\* never aborts in it.
C9_SyncSearchNeverFails ==
    Stage = "SYNC_SEARCH" =>
        /\ raised = NoError
        /\ pc # "returned"
        /\ (pc = "trim" => sync_timestamp # None)

\* C10: when ffmpeg exits non-zero, process() returns False and no later
\* stage is entered.
C10_TrimFailureAborts ==
    hard_failure = "TRIM" =>
        /\ pc \in {"returned", "exited"}
        /\ retval = Some(FALSE)
        /\ Stage = "TRIM"
        /\ first_frame_number = None
        /\ found_frame_position = None
        /\ vmaf_offset = None

C10_Witness ==
    /\ hard_failure = "TRIM"
    /\ pc = "exited"
    /\ exit_code = Some(1)
    /\ trail = <<"SYNC_SEARCH", "TRIM">>

\* The stage has been entered.
Entered(stage) == \E i \in 1..Len(trail) : trail[i] = stage

\* The frame the post-trim read was given carries no marker: no frame could
\* be read from the trimmed file, the recognition raised, it found no text,
\* or the text of its highest-confidence region is not numeric.
PostTrimNoMarker ==
    \/ Len(seen) = 0
    \/ seen[1].raises
    \/ Len(seen[1].results) = 0
    \/ ~IsDigit(BestResult(seen[1].results).text)

\* C11: when the post-trim read yields no marker (no text, non-numeric text,
\* unreadable or missing trimmed file, or a recognition error), the locate
\* stage is never entered, the offset is 0, and the next stage entered is
\* the metric invocation, which is handed the offset 0.
C11_PostTrimDegrades ==
    /\ (Stage = "POST_TRIM_READ" /\ PostTrimNoMarker) =>
            first_frame_number = None /\ pc = "metric"
    /\ (Entered("POST_TRIM_READ") /\ first_frame_number = None) =>
            /\ ~Entered("REFERENCE_LOCATE")
            /\ found_frame_position = None
            /\ vmaf_offset = <<0, 1>>
            /\ \/ pc = "metric" /\ Stage = "POST_TRIM_READ"
               \/ \E i \in 1..(Len(trail) - 1) :
                     trail[i] = "POST_TRIM_READ" /\ trail[i + 1] = "METRIC_INVOKE"

C11_Witness ==
    /\ dist.kind = "free"
    /\ pc = "copy"
    /\ first_frame_number = None
    /\ vmaf_offset = <<0, 1>>
    /\ trail = <<"SYNC_SEARCH", "TRIM", "POST_TRIM_READ", "METRIC_INVOKE">>

\* C12: when the locator returns frame index k, the offset handed to the
\* metric tool is k/30 seconds whatever the frame rate of the reference;
\* when it returns nothing (window or video exhausted, or reference not
\* opened) the offset is 0; in both cases the stage entered next is the
\* metric invocation.
C12_OffsetAssumesThirty ==
    /\ (Entered("REFERENCE_LOCATE") /\ (pc = "metric" \/ Entered("METRIC_INVOKE"))) =>
            /\ IF found_frame_position # None
                  THEN /\ vmaf_offset[2] > 0
                       /\ 30 * vmaf_offset[1] = found_frame_position[1] * vmaf_offset[2]
                  ELSE vmaf_offset = <<0, 1>>
            /\ \A i \in 1..(Len(trail) - 1) :
                  trail[i] = "REFERENCE_LOCATE" => trail[i + 1] = "METRIC_INVOKE"
    /\ (Stage = "REFERENCE_LOCATE" /\ raised = NoError) => pc \in {"locate", "metric"}

C12_Witness ==
    /\ ref.fpsN = 1
    /\ ref.fpsD = 2
    /\ found_frame_position = Some(2)
    /\ vmaf_offset = <<2, 30>>
    /\ Stage = "METRIC_INVOKE"

\* C13: when the metric tool exits non-zero, or its invocation raises,
\* process() returns False, neither the copy step nor the plotting step is
\* entered, and main() exits with status 1.
C13_MetricFailureAborts ==
    hard_failure = "METRIC_INVOKE" =>
        /\ pc \in {"returned", "exited"}
        /\ retval = Some(FALSE)
        /\ Stage = "METRIC_INVOKE"
        /\ ~Entered("COPY")
        /\ ~Entered("PLOTS")
        /\ (pc = "exited" => exit_code = Some(1))

C13_Witness ==
    /\ hard_failure = "METRIC_INVOKE"
    /\ pc = "exited"
    /\ retval = Some(FALSE)
    /\ exit_code = Some(1)
    /\ found_frame_position # None
    /\ Stage = "METRIC_INVOKE"

\* C14: once the metric tool has succeeded, process() returns True whether
\* or not the copy step and the plotting step succeed, and main() exits
\* with status 0.
C14_ReportingFailuresAreSoft ==
    (Entered("METRIC_INVOKE") /\ hard_failure = NoError
        /\ pc \in {"copy", "plots", "returned", "exited"}) =>
        /\ pc = "copy" => ~Entered("COPY") /\ retval = None
        /\ pc = "plots" => Stage = "COPY" /\ retval = None
        /\ pc \in {"returned", "exited"} =>
              /\ retval = Some(TRUE)
              /\ Entered("COPY")
              /\ Stage = "PLOTS"
        /\ pc = "exited" => exit_code = Some(0)

C14_Witness ==
    /\ "COPY" \in degraded
    /\ "PLOTS" \in degraded
    /\ pc = "exited"
    /\ retval = Some(TRUE)
    /\ exit_code = Some(0)

\* The last frame read by the scan in progress made the recognition raise.
LastReadRaised == Len(seen) > 0 /\ seen[Len(seen)].raises

\* The transition scan and the post-trim read treat a recognition error as
\* "no detection": no sync point is declared on that frame, no marker is read.
RecognitionErrorsSoftInScanAndRead ==
    /\ (InScan /\ LastReadRaised) =>
            raised = NoError /\ sync_timestamp = None
    /\ (Stage = "POST_TRIM_READ" /\ LastReadRaised) =>
            raised = NoError /\ first_frame_number = None /\ pc = "metric"

\* C15: an exception raised by the recognition on a frame is treated as "no
\* detection" for that frame and never aborts the run, in the transition
\* scan, in the post-trim read and in the reference locate scan.
C15_RecognitionErrorsAreSoft ==
    /\ RecognitionErrorsSoftInScanAndRead
    /\ (Stage = "REFERENCE_LOCATE" /\ LastReadRaised) =>
            /\ raised = NoError
            /\ found_frame_position = None
            /\ pc \in {"locate", "metric"}

\* C16: when the reference file or the distorted file does not exist, the
\* construction raises FileNotFoundError, no stage of the pipeline is ever
\* entered (no capture opened, no sync point, no trim, no marker, no
\* offset), process() never returns, and main() exits with status 1.
C16_MissingInputFailsFast ==
    ((~run.ref_exists \/ ~run.dist_exists) /\ pc # "main") =>
        /\ pc \in {"main_except", "exited"}
        /\ raised = "FileNotFoundError"
        /\ trail = <<>>
        /\ handles = {}
        /\ retval = None
        /\ sync_timestamp = None
        /\ start_time = None
        /\ first_frame_number = None
        /\ vmaf_offset = None
        /\ (pc = "exited" => exit_code = Some(1))

C16_Witness ==
    /\ run.ref_exists
    /\ ~run.dist_exists
    /\ pc = "exited"
    /\ exit_code = Some(1)
    /\ trail = <<>>

\* No scanning loop reads beyond its window: the transition scan reads no
\* frame whose timestamp is later than 30 s after the seek point, the
\* fallback at most int(fps*10) frames, the locator at most int(fps*60).
ScanWindowsRespected ==
    /\ (InScan /\ Len(seen) > 0) =>
            (SeekFrame(dist) + Len(seen) - 1) * dist.fpsD
                <= (run.seek_distorted + 30) * dist.fpsN
    /\ "fallback" \in handles =>
            Len(seen) * dist.fpsD <= 10 * dist.fpsN
    /\ "locate" \in handles =>
            Len(seen) * ref.fpsD <= 60 * ref.fpsN

\* C17: every scanning loop terminates on every frame source, also on one
\* that outlasts the window and never shows a qualifying detection: each
\* loop that is running is eventually left, the transition scan having read
\* no frame later than 30 s after the seek point, the fallback no more than
\* 10 s of frames, the locator no more than 60 s of frames.
C17_ScansTerminate ==
    /\ []ScanWindowsRespected
    /\ (pc = "scan") ~> (pc # "scan")
    /\ (pc = "fallback") ~> (pc # "fallback")
    /\ (pc = "locate") ~> (pc # "locate")

C17_Witness ==
    /\ dist.n = EndlessFrames
    /\ run.seek_distorted = 2
    /\ pc = "trim"
    /\ sync_method = "fallback"
    /\ Len(seen) = 10
    /\ frame_count = 12

ReaderRegionsGiven == seen[1].results

\* The text is purely numeric: not empty, and no character outside 0-9.
Numeric(text) == Len(text) > 0 /\ { text[i] : i \in 1..Len(text) } \subseteq 0..9

\* The value of a numeric text as a decimal numeral, read left to right.
RECURSIVE DecimalValue(_, _)
DecimalValue(text, acc) ==
    IF Len(text) = 0 THEN acc ELSE DecimalValue(Tail(text), 10 * acc + Head(text))

\* C19: when the recognition returns several regions, the marker reader
\* uses the one of the highest confidence, and among those tied for the
\* highest the first of the list: a numeric result is that region's value
\* with that region's confidence, and no marker is reported when that
\* region's text is not numeric.
C19_SelectsFirstHighest ==
    (pc = "reader_done" /\ ~seen[1].raises /\ Len(ReaderRegionsGiven) > 0) =>
        LET rs == ReaderRegionsGiven
            top == CHOOSE c \in { rs[i].conf : i \in 1..Len(rs) } :
                       \A i \in 1..Len(rs) : rs[i].conf <= c
            tied == { i \in 1..Len(rs) : rs[i].conf = top }
            first == CHOOSE i \in tied : \A j \in tied : i <= j
        IN  IF detection[1][1] # None
              THEN /\ detection[1][1] = Some(DecimalValue(rs[first].text, 0))
                   /\ detection[1][2] = rs[first].conf
                   /\ Numeric(rs[first].text)
              ELSE ~Numeric(rs[first].text)

C19_Witness ==
    /\ pc = "reader_done"
    /\ ReaderRegionsGiven = <<R(<<5>>, 30), R(<<0, 7>>, 90), R(<<5>>, 90)>>
    /\ detection = Some(<<Some(7), 90>>)

\* C20: the marker reader returns (no marker, 0.0) when no region is found
\* and when the text of the selected region is not purely numeric, even if
\* a region of lower confidence is numeric; otherwise it returns the
\* integer value of the selected text with the selected region's
\* confidence.
C20_ReaderResult ==
    (pc = "reader_done" /\ ~seen[1].raises) =>
        LET rs == ReaderRegionsGiven
            selected == { i \in 1..Len(rs) :
                            /\ \A j \in 1..Len(rs) : rs[j].conf <= rs[i].conf
                            /\ \A j \in 1..(i - 1) : rs[j].conf < rs[i].conf }
        IN  /\ Len(rs) = 0 => detection = Some(<<None, 0>>)
            /\ \A i \in selected :
                  IF Numeric(rs[i].text)
                    THEN detection =
                           Some(<<Some(DecimalValue(rs[i].text, 0)), rs[i].conf>>)
                    ELSE detection = Some(<<None, 0>>)

C20_Witness ==
    /\ pc = "reader_done"
    /\ ReaderRegionsGiven = <<R(<<>>, 90), R(<<5>>, 30)>>
    /\ detection = Some(<<None, 0>>)

\* A step of the transition scan that reads a frame which does not qualify
\* (no marker, or a confidence of 0.5 or less) changes neither the
\* remembered detection nor the sync point, and the scan goes on.
NonQualifyingFrameKeepsLast ==
    (pc = "scan" /\ Len(seen') = Len(seen) + 1) =>
        LET det == extract_frame_number_with_confidence(seen'[Len(seen')])
        IN  (det[1] = None \/ det[2] <= 50) =>
                /\ last_frame_number' = last_frame_number
                /\ last_confidence' = last_confidence
                /\ sync_timestamp' = sync_timestamp
                /\ frame_count' = frame_count + 1

\* C21: in the transition scan a frame that does not qualify, whatever
\* marker it shows, leaves the remembered detection unchanged: qualifying
\* 5, then frames that do not qualify, then qualifying 7 declares the sync
\* point at the frame reading 7; qualifying 5, low-confidence frames
\* reading 9, qualifying 5 declares nothing.
C21_NonQualifyingKeepsLast ==
    /\ [][NonQualifyingFrameKeepsLast]_vars
    /\ []((run = CarryOverRun /\ InScan) =>
            /\ (Len(seen) \in 1..4 =>
                    last_frame_number = Some(5) /\ sync_timestamp = None)
            /\ (Len(seen) = 5 => sync_timestamp = <<4, 1>> /\ pc = "scan_end"))
    /\ []((run = SameMarkerAgainRun /\ Stage = "SYNC_SEARCH") =>
            /\ sync_method # "transition"
            /\ (InScan => sync_timestamp = None)
            /\ (InScan /\ Len(seen) >= 1 => last_frame_number = Some(5)))

C21_Witness ==
    /\ run = CarryOverRun
    /\ pc = "scan_end"
    /\ Len(seen) = 5
    /\ last_frame_number = Some(5)
    /\ sync_timestamp = <<4, 1>>

\* The log of the stage in progress holds a record of this kind.
HasLogged(event) == \E i \in 1..Len(log) : log[i].event = event

\* C22: before the trim starts, the log records which method produced the
\* sync point: a transition record when the transition scan declared it, a
\* fallback record when the difference fallback returned it, and never both
\* for the same run.
C22_SyncMethodRecorded ==
    /\ ~(HasLogged("transition") /\ (HasLogged("using_fallback") \/ HasLogged("fallback_found")))
    /\ (pc = "scan_end" /\ sync_timestamp # None) => HasLogged("transition")
    /\ (HasLogged("fallback_found") => HasLogged("using_fallback"))
    /\ pc = "trim" =>
          /\ sync_timestamp # None
          /\ HasLogged("transition") \/ HasLogged("fallback_found")
          /\ (HasLogged("transition") <=> sync_method = "transition")
          /\ (HasLogged("fallback_found") <=> sync_method = "fallback")
          /\ Len(log) \in {1, 2}

C22_Witness ==
    /\ pc = "trim"
    /\ dist.kind = "free"
    /\ Len(seen) = 1
    /\ log = <<Logged("using_fallback", None), Logged("fallback_found", None)>>
    /\ sync_timestamp = <<0, 1>>

\* C23: the seek start handed to ffmpeg equals start_time =
\* max(0, round(offset) + buffer) for every buffer, fractional buffers
\* included (start_time is counted in half seconds, the -ss argument in
\* whole seconds).
C23_SeekStartIsStartTime ==
    pc = "trim_fn_done" =>
        /\ start_time = Some(Max(0, 2 * PyRound(sync_timestamp[1], sync_timestamp[2])
                                       + run.buffer_seconds))
        /\ 2 * ffmpeg_ss[1] = start_time[1]

\* For buffers that are a whole number of seconds the seek start is
\* start_time.
SeekStartIsStartTimeForWholeBuffers ==
    (pc = "trim_fn_done" /\ run.buffer_seconds % 2 = 0) =>
        2 * ffmpeg_ss[1] = start_time[1]

\* The transition scan reads consecutive frames from frame
\* int(seek_distorted*fps) on.
ScanReadsFromSeekFrame ==
    InScan =>
        frame_count = SeekFrame(dist) + Len(seen)
                        - (IF sync_timestamp # None THEN 1 ELSE 0)

\* C24 (as stated): the transition scan examines at most 30*fps frames from
\* frame int(seek_distorted*fps) on.
C24_AtMostThirtySecondsOfFrames ==
    /\ ScanReadsFromSeekFrame
    /\ InScan => Len(seen) * dist.fpsD <= 30 * dist.fpsN

\* C24 (amended): the transition scan examines consecutive frames from
\* frame int(seek_distorted*fps) up to and including frame
\* floor((seek_distorted+30)*fps), which is one frame more than 30*fps when
\* both products are whole; it runs recognition on no frame beyond that,
\* and when it has read that last frame without declaring a sync point it
\* gives up.
C24_WindowIncludesLastFrame ==
    /\ ScanReadsFromSeekFrame
    /\ InScan =>
          LET lastFrame == ((run.seek_distorted + 30) * dist.fpsN) \div dist.fpsD
              most == lastFrame - SeekFrame(dist) + 1
          IN  /\ Len(seen) <= most
              /\ (pc = "scan_end" /\ sync_timestamp = None) => Len(seen) = most
              /\ (pc = "scan" /\ Len(seen) > 0) => Len(seen) < most

C24_Witness ==
    /\ dist.n = EndlessFrames
    /\ run.seek_distorted = 2
    /\ pc = "scan_end"
    /\ sync_timestamp = None
    /\ Len(seen) = 31
    /\ frame_count = 33

\* Each capture handle is open only while its own stage is reading frames;
\* get_first_frame_number opens and releases its handle within one step, so
\* no other handle may be open when it starts.
HandlesFollowStages ==
    /\ Cardinality(handles) <= 1
    /\ "sync" \in handles => pc \in {"scan", "scan_end"}
    /\ "fallback" \in handles => pc = "fallback"
    /\ "locate" \in handles => pc = "locate"
    /\ pc \in {"trim", "post_trim", "metric"} => handles = {}

\* On the paths where no exception escapes, every handle is released when
\* its stage is left, and at most one is open.
HandlesReleasedUnlessRaised == raised = NoError => HandlesFollowStages

\* C25: at most one video capture handle is open in every reachable state;
\* a stage's handle is released on every exit path of the stage (match
\* found, window exhausted, end of stream, recognition error) before the
\* next stage or the fallback opens its own; no handle is open while the
\* transcoding utility or the metric tool runs.
C25_HandlesReleasedOnEveryPath == HandlesFollowStages

\* The two orders in which process() can enter its steps.
OrderWithLocate ==
    <<"SYNC_SEARCH", "TRIM", "POST_TRIM_READ", "REFERENCE_LOCATE",
      "METRIC_INVOKE", "COPY", "PLOTS">>

OrderWithoutLocate ==
    <<"SYNC_SEARCH", "TRIM", "POST_TRIM_READ", "METRIC_INVOKE", "COPY", "PLOTS">>

IsPrefix(s, t) == Len(s) <= Len(t) /\ \A i \in 1..Len(s) : s[i] = t[i]

\* C26: within one run the stages are entered in the order SYNC_SEARCH,
\* TRIM, POST_TRIM_READ, REFERENCE_LOCATE (exactly when a marker was read),
\* METRIC_INVOKE; each at most once, none re-entered, and a stage is entered
\* only when the previous one has finished: while a stage is still working
\* it is the last stage entered.
C26_StagesInOrder ==
    /\ IsPrefix(trail, OrderWithLocate) \/ IsPrefix(trail, OrderWithoutLocate)
    /\ Entered("REFERENCE_LOCATE") => first_frame_number # None
    /\ (Entered("METRIC_INVOKE") /\ ~Entered("REFERENCE_LOCATE")) =>
            first_frame_number = None
    /\ pc \in {"scan", "scan_end", "fallback_open", "fallback", "trim"} =>
            Stage = "SYNC_SEARCH"
    /\ pc = "post_trim" => Stage = "TRIM"
    /\ pc = "locate_open" => Stage = "POST_TRIM_READ"
    /\ pc = "locate" => Stage = "REFERENCE_LOCATE"
    /\ pc = "metric" => Stage \in {"POST_TRIM_READ", "REFERENCE_LOCATE"}
    /\ pc = "copy" => Stage = "METRIC_INVOKE"

C26_Witness ==
    /\ pc = "copy"
    /\ trail = <<"SYNC_SEARCH", "TRIM", "POST_TRIM_READ", "REFERENCE_LOCATE",
                 "METRIC_INVOKE">>
    /\ sync_method = "fallback"
    /\ found_frame_position # None

\* C27: when the metric tool is about to be invoked, and ever after, the
\* offset is non-negative and is either 0 or k/30 for a reference frame
\* index k, 0 <= k < int(fps_ref*60), whose detected marker equals the marker
\* read from the first frame of the trimmed file.
C27_OffsetIsZeroOrMatch ==
    /\ pc = "metric" =>
          /\ vmaf_offset # None
          /\ vmaf_offset[1] >= 0 /\ vmaf_offset[2] > 0
          /\ \/ vmaf_offset[1] = 0
             \/ \E k \in 0..(Len(seen) - 1) :
                   /\ vmaf_offset = <<k, 30>>
                   /\ k < (60 * ref.fpsN) \div ref.fpsD
                   /\ Stage = "REFERENCE_LOCATE"
                   /\ first_frame_number # None
                   /\ SeenShowsTarget(k + 1)
    /\ Entered("METRIC_INVOKE") =>
          /\ vmaf_offset[1] >= 0 /\ vmaf_offset[2] > 0
          /\ \/ vmaf_offset[1] = 0
             \/ /\ vmaf_offset[2] = 30
                /\ found_frame_position = Some(vmaf_offset[1])
                /\ vmaf_offset[1] < (60 * ref.fpsN) \div ref.fpsD

C27_Witness ==
    /\ pc = "metric"
    /\ vmaf_offset = <<2, 30>>
    /\ Len(seen) = 3
    /\ ref.fpsN # 30 * ref.fpsD

\* The per-frame records of the locator's scan, one per frame read without
\* a recognition error, in the order of the frames.
LocatorRecords ==
    IF Stage = "REFERENCE_LOCATE" /\ pc \in {"locate", "metric", "main_except"}
      THEN {i \in 1..Len(log) : log[i].event = "frame"}
      ELSE {}

\* Every frame of the locator's scan whose marker is not 0 is logged as
\* what was detected.
LoggedIsDetectionUnlessZero ==
    \A i \in LocatorRecords :
        DetectedNumber(seen[i]) # Some(0) => log[i].value = DetectedNumber(seen[i])

\* C28: for every frame the locator scans, the logged outcome is the
\* detection itself: the marker value whenever a numeric marker was detected,
\* marker 0 included, and 'no number' only when no marker was detected.
C28_LoggedOutcomeIsDetection ==
    \A i \in LocatorRecords : log[i].value = DetectedNumber(seen[i])

\* A run with both inputs present has created its results directory, with
\* the log file in it, once the construction is over.
ResultsDirCreatedByConstruction == pc # "main" => results_dir

\* C29: when the reference file or the distorted file is missing, the run
\* fails without any result artefact: the results directory, and the log
\* file in it, do not exist at any point of the run.
C29_MissingInputLeavesNoArtefact ==
    (~run.ref_exists \/ ~run.dist_exists) => ~results_dir

\* The quality category a bucket of the histogram stands for.
QualityOfBucket(b) ==
    CASE b = "Excellent (90+)" -> "Excellent"
      [] b = "Good (74-90)" -> "Good"
      [] b = "Fair (58-74)" -> "Fair"
      [] b = "Poor (38-58)" -> "Poor"
      [] OTHER -> "Bad"

\* The scores on which the report's buckets and the documented scale
\* differ: 74, 58 and 59, and everything below 38.
OffScale(score) == score = 74 \/ score \in 58..59 \/ score < 38

\* The histogram counts every score exactly once, and away from the scores
\* above its buckets are those of the documented scale.
BucketsPartitionScores ==
    pc = "plotted" =>
        /\ buckets["Excellent (90+)"] + buckets["Good (74-90)"]
              + buckets["Fair (58-74)"] + buckets["Poor (38-58)"]
              + buckets["Bad (<38)"] = Len(scores)
        /\ (\A i \in 1..Len(scores) : ~OffScale(scores[i])) =>
              \A b \in BucketLabels :
                 buckets[b] = Cardinality({i \in 1..Len(scores) :
                                  DocumentedQuality(scores[i]) = QualityOfBucket(b)})

\* C30: the category the report assigns to a per-frame score agrees with
\* the documented scale for every whole score in 0..100 (90 and above
\* Excellent, 75 up to 90 Good, 60 up to 75 Fair, below 60 Poor), each score
\* in exactly one category: the histogram counts per category are the
\* numbers of scores the documented scale puts there.
C30_BucketsFollowDocumentedScale ==
    pc = "plotted" =>
        \A b \in BucketLabels :
            buckets[b] = Cardinality({i \in 1..Len(scores) :
                             DocumentedQuality(scores[i]) = QualityOfBucket(b)})

\* C31: the transition scan never declares the sync point at the first
\* frame it reads: when it declares, it has read at least two frames, the
\* frame that declares and an earlier one both carry a strictly confident
\* marker, the frame index is greater than int(seek_distorted*fps) and the
\* timestamp is later than that of the first frame scanned.
C31_NeverAtFirstFrame ==
    /\ (InScan /\ sync_timestamp # None) =>
          /\ Len(seen) >= 2
          /\ StrictlyConfident(Len(seen))
          /\ \E i \in 1..(Len(seen) - 1) : StrictlyConfident(i)
          /\ frame_count > SeekFrame(dist)
    /\ sync_method = "transition" =>
          sync_timestamp[1] * dist.fpsN > SeekFrame(dist) * dist.fpsD * sync_timestamp[2]

C31_Witness ==
    /\ pc = "scan_end"
    /\ sync_method = "transition"
    /\ Len(seen) = 2
    /\ run.seek_distorted > 0
    /\ frame_count = SeekFrame(dist) + 1

\* The difference between the i-th and the (i+1)-th frame the fallback read.
SeenDiff(i) ==
    IF seen[i + 1] >= seen[i] THEN seen[i + 1] - seen[i] ELSE seen[i] - seen[i + 1]

\* The earliest pair of consecutive frames read, i and i+1, whose difference
\* is the largest of all pairs read.
EarliestMaxPair ==
    CHOOSE i \in 1..(Len(seen) - 1) :
        /\ \A j \in 1..(Len(seen) - 1) : SeenDiff(j) <= SeenDiff(i)
        /\ \A j \in 1..(i - 1) : SeenDiff(j) < SeenDiff(i)

\* C32: when some consecutive-frame difference among the frames the fallback
\* has read is positive, the frame it tracks is the later frame of the
\* earliest pair that attains the maximum difference (never the earlier
\* frame of the pair, never a later pair of a tie), and the timestamp it
\* returns is that frame's.
C32_FallbackLaterFrameOfEarliestMax ==
    (InFallback /\ \E i \in 1..(Len(seen) - 1) : SeenDiff(i) > 0) =>
        /\ sync_frame = SeekFrame(dist) + EarliestMaxPair
        /\ max_diff = SeenDiff(EarliestMaxPair)
        /\ pc = "trim" =>
              sync_timestamp =
                  <<(SeekFrame(dist) + EarliestMaxPair) * dist.fpsD, dist.fpsN>>

C32_Witness ==
    /\ pc = "trim"
    /\ sync_method = "fallback"
    /\ Len(seen) = 4
    /\ SeenDiff(1) = 1
    /\ SeenDiff(2) = 2
    /\ SeenDiff(3) = 2
    /\ sync_frame = SeekFrame(dist) + 2
    /\ sync_timestamp = <<(SeekFrame(dist) + 2) * dist.fpsD, dist.fpsN>>

\* The regions the recognition returned for the first frame of the trimmed
\* file, and the first of those with the highest confidence.
PostTrimRegions == seen[1].results

PostTrimTopRegion ==
    PostTrimRegions[
        CHOOSE k \in 1..Len(PostTrimRegions) :
            /\ \A j \in 1..Len(PostTrimRegions) :
                  PostTrimRegions[j].conf <= PostTrimRegions[k].conf
            /\ \A j \in 1..(k - 1) :
                  PostTrimRegions[j].conf < PostTrimRegions[k].conf]

\* The post-trim read was given a frame whose highest-confidence region has
\* a numeric text.
PostTrimShowsMarker ==
    /\ Len(seen) = 1
    /\ ~seen[1].raises
    /\ Len(PostTrimRegions) > 0
    /\ Numeric(PostTrimTopRegion.text)

\* C33: the post-trim read applies no confidence threshold: whenever the
\* highest-confidence region of the trimmed first frame has a numeric text,
\* its value is the locate target whatever its confidence (0.5 or lower
\* included) and whatever its value (0 included), and the locate stage is
\* the next stage entered for it.
C33_PostTrimNoThreshold ==
    /\ (Stage = "POST_TRIM_READ" /\ PostTrimShowsMarker) =>
            /\ first_frame_number = Some(DecimalValue(PostTrimTopRegion.text, 0))
            /\ pc = "locate_open"
    /\ (Entered("POST_TRIM_READ") /\ first_frame_number # None
            /\ pc # "locate_open") =>
            /\ Entered("REFERENCE_LOCATE")
            /\ \E i \in 1..(Len(trail) - 1) :
                  trail[i] = "POST_TRIM_READ" /\ trail[i + 1] = "REFERENCE_LOCATE"

C33_Witness ==
    /\ Stage = "POST_TRIM_READ"
    /\ pc = "locate_open"
    /\ seen = <<Ocr(<<R(<<0, 5>>, 50)>>)>>
    /\ first_frame_number = Some(5)

\* A run in which the marker read from the trimmed first frame is 0 and the
\* locate stage scans for it.
PostTrimMarkerZeroLocated ==
    /\ Stage = "REFERENCE_LOCATE"
    /\ pc = "locate"
    /\ first_frame_number = Some(0)

\* C34: the run exits with status 0 exactly when process() returned True;
\* it exits with status 1 when process() returned False, and when an
\* exception escaped the construction or a stage (process() then returned
\* nothing); there is no other exit status, and none before the exit.
C34_ExitStatus ==
    /\ pc # "exited" => exit_code = None
    /\ pc = "exited" =>
          /\ exit_code \in {Some(0), Some(1)}
          /\ exit_code = Some(0) <=> retval = Some(TRUE)
          /\ retval = Some(FALSE) => exit_code = Some(1)
          /\ raised # NoError => (retval = None /\ exit_code = Some(1))
          /\ retval = None <=> raised # NoError

C34_Witness ==
    /\ pc = "exited"
    /\ raised = "OcrError"
    /\ Stage = "REFERENCE_LOCATE"
    /\ retval = None
    /\ exit_code = Some(1)

====
